---- MODULE Spec2Model ----
(***************************************************************************)
(* A model of src/src/extract_and_upload.py: the Caddis extraction run.    *)
(*                                                                         *)
(* main() loads the configuration, builds the two clients, pages through   *)
(* the article catalogue, pages through every configured price list,       *)
(* combines both record sets into one table and replaces the worksheet     *)
(* with it.  The upstream API and the spreadsheet service are the          *)
(* environment: every request is answered by a nondeterministic choice     *)
(* among the answers they can give.                                        *)
(*                                                                         *)
(* Units.  A SKU is a string of digits, modelled as a tuple of digits      *)
(* (<<>> is the empty string).  Money is in cents, a tax rate in           *)
(* thousandths (0.105 is 105).  A JSON value of a price record is a        *)
(* tagged value: a number, a non-numeric text or null.                     *)
(***************************************************************************)
EXTENDS Integers, Naturals, Sequences, FiniteSets, TLC

\* ------------------------------------------------------------------ bounds

\* Upstream records (of catalogue and price pages together) delivered in one
\* run, at most.
MaxRecords == 3
\* Records in one page, at most.
MaxBatch == 2

\* ------------------------------------------------------- small general helpers

RECURSIVE SeqsUpTo(_, _)
\* The non-empty sequences over S of length at most n.
SeqsUpTo(S, n) ==
    IF n <= 0 THEN {}
    ELSE LET shorter == SeqsUpTo(S, n - 1)
         IN  {<<x>> : x \in S} \cup shorter
             \cup {Append(s, x) : s \in shorter, x \in S}

Min(a, b) == IF a <= b THEN a ELSE b

\* ------------------------------------------------------------ configuration

\* The 24 published price-list ids, in column order.
PublishedLists ==
    <<1, 2, 3, 5, 7, 8, 9, 10, 11, 12, 13, 14, 15, 16, 17, 18, 19, 20, 21, 22,
      23, 24, 25, 33>>

\* The keys of PRICE_LIST_MAPPING.
PRICE_LIST_MAPPING == {PublishedLists[i] : i \in 1..Len(PublishedLists)}

\* str.isdigit() on the tokens the model draws for PRICE_LISTS.
IsDigit(tok) == tok \in {"0", "1", "2", "4"}

\* int() on a token for which isdigit() holds.
ToInt(tok) ==
    CASE tok = "0" -> 0
      [] tok = "1" -> 1
      [] tok = "2" -> 2
      [] tok = "4" -> 4

RECURSIVE ParsePriceLists(_)
\* [int(x.strip()) for x in s.split(',') if x.strip().isdigit()]
ParsePriceLists(toks) ==
    IF toks = <<>> THEN <<>>
    ELSE LET rest == ParsePriceLists(Tail(toks))
         IN  IF IsDigit(Head(toks)) THEN <<ToInt(Head(toks))>> \o rest ELSE rest

\* load_config: the PRICE_LISTS override, and the default when nothing is left.
LoadPriceLists(toks) ==
    LET parsed == ParsePriceLists(toks)
    IN  IF parsed = <<>> THEN PublishedLists ELSE parsed

\* The values of the PRICE_LISTS environment variable the model draws, already
\* split at the commas.
EnvPriceLists ==
    {<<"1", "2">>, <<"4", "x", "1">>}

\* ------------------------------------------------------- upstream records

\* The SKUs upstream records carry: "", "2" and "10".
EmptySku == <<>>
Skus == {EmptySku, <<2>>, <<1, 0>>}

\* The values of the estado field.
Estados == {"ACTIVO", "INACTIVO", "inactivo"}

\* A record of a catalogue page (id is never read downstream and is left out):
\* every SKU in every estado, and the active record of "2" under a second name.
UpstreamArticles ==
    [sku : Skus, estado : Estados, nombre : {"n1"}, tipo : {"t"},
     marca : {"m"}, grupo : {"g"}]
    \cup [sku : {<<2>>}, estado : {"ACTIVO"}, nombre : {"n2"}, tipo : {"t"},
          marca : {"m"}, grupo : {"g"}]

\* A JSON value of a price record: a number, a non-numeric text, or null.
Num(n) == [t |-> "num", v |-> n]
Text == [t |-> "text", v |-> 0]
Null == [t |-> "null", v |-> 0]

\* The (precio_unitario, iva_tasa) pairs of price records: 100.00 at 10.5 %,
\* 100.00 at 0 %, a price that is no number, a tax rate that is null.
PriceFields ==
    {<<Num(10000), Num(105)>>, <<Num(10000), Num(0)>>, <<Text, Num(105)>>,
     <<Num(10000), Null>>}

\* The SKUs price records carry: "2".
PriceSkus == {<<2>>}

\* A record of a price page.
UpstreamPrices ==
    {[sku |-> sku, precio_unitario |-> f[1], iva_tasa |-> f[2]] :
        sku \in PriceSkus, f \in PriceFields}

\* What the API answers to a page request: a 2xx page with a record batch, a
\* 404, another error status, or nothing at all (connection error, timeout).
RespKinds == {"ok", "not_found", "http_error", "no_response"}

\* A 2xx answer whose JSON object is not of the endpoint's shape: it has no
\* 'body', its body is an object without 'articulos', or its body is neither
\* a list nor an object (a text, a number, null).
MalformedArticles == {"no_body", "bare_object"}
MalformedPrices == {"scalar_body", "bare_object"}

Resp(kind, batch) == [kind |-> kind, batch |-> batch]

\* The answers to a page request when at most n more records may be delivered.
Responses(records, malformed, n) ==
    {Resp(k, <<>>) : k \in RespKinds \cup malformed}
    \cup {Resp("ok", b) : b \in SeqsUpTo(records, Min(MaxBatch, n))}

\* The answer is a 2xx page: raise_for_status() passes and response.json()
\* gives an object.
IsPage(resp) == resp.kind \in {"ok", "no_body", "bare_object", "scalar_body"}

\* articles_data: data.get('body', []) when that is a list, [] otherwise.
ArticlesData(resp) == IF resp.kind = "ok" THEN resp.batch ELSE <<>>

\* prices_data: body.get('articulos', []) when data.get('body', {}) is an
\* object, [] otherwise.
PricesData(resp) == IF resp.kind = "ok" THEN resp.batch ELSE <<>>

\* ------------------------------------------------------------ get_articles

\* str.upper() on the estado values.
Upper(s) ==
    CASE s = "inactivo" -> "INACTIVO"
      [] s = "INACTIVO" -> "INACTIVO"
      [] s = "ACTIVO" -> "ACTIVO"

\* Faulty variant of SkipInactive: the comparison without upper().
SkipInactive_CaseSensitive(article) == article.estado = "INACTIVO"

\* The test of the "Skip inactive SKUs" branch.
SkipInactive(article) == Upper(article.estado) = "INACTIVO"

\* article_data, the dictionary appended for a record that is kept.
ArticleData(article) ==
    [sku |-> article.sku, nombre |-> article.nombre, tipo |-> article.tipo,
     marca |-> article.marca, grupo |-> article.grupo]

\* Faulty variant of ExtractArticles: no record is skipped.
ExtractArticles_NoSkip(batch) == [i \in DOMAIN batch |-> ArticleData(batch[i])]

RECURSIVE ExtractArticles(_)
\* The for loop over articles_data: what one page appends to articles.
ExtractArticles(batch) ==
    IF batch = <<>> THEN <<>>
    ELSE IF SkipInactive(Head(batch)) THEN ExtractArticles(Tail(batch))
    ELSE <<ArticleData(Head(batch))>> \o ExtractArticles(Tail(batch))

\* Faulty variant of ArticlesOutcome: an error status ends the loop as a 404
\* does, the way get_prices handles it.
ArticlesOutcome_ErrorStops(resp) ==
    CASE resp.kind = "not_found" -> "stop"
      [] resp.kind = "http_error" -> "stop"
      [] resp.kind = "no_response" -> "raise"
      [] IsPage(resp) -> IF ArticlesData(resp) = <<>> THEN "stop" ELSE "next"

\* Faulty variant of ArticlesOutcome: an empty batch does not end the loop.
ArticlesOutcome_EmptyGoesOn(resp) ==
    CASE resp.kind = "not_found" -> "stop"
      [] resp.kind = "http_error" -> "raise"
      [] resp.kind = "no_response" -> "raise"
      [] OTHER -> "next"

\* What get_articles does with the answer to a page request: "stop" (break
\* out of the loop), "raise" or "next" (extract and go on to the next page).
\* In the except branch e.response is None when there was no response, and
\* reading its status_code raises AttributeError out of get_articles.
ArticlesOutcome(resp) ==
    CASE resp.kind = "not_found" -> "stop"
      [] resp.kind = "http_error" -> "raise"
      [] resp.kind = "no_response" -> "raise"
      [] IsPage(resp) -> IF ArticlesData(resp) = <<>> THEN "stop" ELSE "next"

\* -------------------------------------------------------------- get_prices

\* float(x) succeeds: neither TypeError nor ValueError.
IsFloat(x) == x.t = "num"

\* round(n / d) for n >= 0, d > 0, halves to the even neighbour.
RoundDiv(n, d) ==
    LET q == n \div d
        r == n % d
    IN  IF 2 * r < d THEN q
        ELSE IF 2 * r > d THEN q + 1
        ELSE IF q % 2 = 0 THEN q ELSE q + 1

\* precio_con_iva = round(precio_base * (1 + iva_rate), 2), in cents.
PrecioConIva(precio_base, iva_rate) ==
    RoundDiv(precio_base * (1000 + iva_rate), 1000)

\* The try block of the record loop: TRUE when the record is converted.
Convertible(item) == IsFloat(item.precio_unitario) /\ IsFloat(item.iva_tasa)

\* price_data, the dictionary appended for a converted record.
PriceData(item, lista_id) ==
    [sku |-> item.sku, lista_id |-> lista_id, iva_tasa |-> item.iva_tasa.v,
     precio_unitario |-> PrecioConIva(item.precio_unitario.v, item.iva_tasa.v)]

RECURSIVE ExtractPrices_BreakOnError(_, _)
\* Faulty variant of ExtractPrices: a conversion error ends the page (break
\* where the code has continue).
ExtractPrices_BreakOnError(batch, lista_id) ==
    IF batch = <<>> THEN <<>>
    ELSE IF ~Convertible(Head(batch)) THEN <<>>
    ELSE <<PriceData(Head(batch), lista_id)>>
         \o ExtractPrices_BreakOnError(Tail(batch), lista_id)

RECURSIVE ExtractPrices(_, _)
\* The for loop over prices_data: what one page appends to prices.
ExtractPrices(batch, lista_id) ==
    IF batch = <<>> THEN <<>>
    ELSE IF ~Convertible(Head(batch)) THEN ExtractPrices(Tail(batch), lista_id)
    ELSE <<PriceData(Head(batch), lista_id)>>
         \o ExtractPrices(Tail(batch), lista_id)

\* Faulty variant of PricesOutcome: raise_for_status() before the test for
\* 404, so that a 404 is handled as any other error status is.
PricesOutcome_404Raises(resp) ==
    CASE resp.kind = "not_found" -> "raise"
      [] resp.kind = "http_error" -> "raise"
      [] resp.kind = "no_response" -> "raise"
      [] IsPage(resp) -> IF PricesData(resp) = <<>> THEN "stop" ELSE "next"

\* Faulty variant of PricesOutcome: the except branch raises on an error
\* status other than 404, as that of get_articles does.
PricesOutcome_ErrorRaises(resp) ==
    CASE resp.kind = "not_found" -> "stop"
      [] resp.kind = "http_error" -> "raise"
      [] resp.kind = "no_response" -> "raise"
      [] IsPage(resp) -> IF PricesData(resp) = <<>> THEN "stop" ELSE "next"

\* Faulty variant of PricesOutcome: a 2xx page without the price array is an
\* error of the list's stream.
PricesOutcome_MalformedRaises(resp) ==
    CASE resp.kind = "not_found" -> "stop"
      [] resp.kind = "http_error" -> "stop"
      [] resp.kind = "no_response" -> "raise"
      [] resp.kind = "ok" -> IF resp.batch = <<>> THEN "stop" ELSE "next"
      [] OTHER -> "raise"

\* What get_prices does with the answer to a page request: "stop" (break out
\* of the inner loop, on to the next list), "raise" or "next".  An error
\* status other than 404 reaches the except branch with e.response set and
\* breaks; with no response at all e.response is None, and reading its
\* status_code raises AttributeError out of the handler and of get_prices.
PricesOutcome(resp) ==
    CASE resp.kind = "not_found" -> "stop"
      [] resp.kind = "http_error" -> "stop"
      [] resp.kind = "no_response" -> "raise"
      [] IsPage(resp) -> IF PricesData(resp) = <<>> THEN "stop" ELSE "next"

\* ------------------------------------------------------------ combine_data

\* Python's truth value of a SKU string and of a list id.
TruthySku(sku) == sku # EmptySku
TruthyId(lista_id) == lista_id # 0

\* The keys of articles_lookup.
ArticleKeys(articles) ==
    {articles[i].sku : i \in {j \in DOMAIN articles : TruthySku(articles[j].sku)}}

\* Faulty variant of KeptIndex: the first record of a key stays.
KeptIndex_First(articles, sku) ==
    CHOOSE i \in DOMAIN articles :
        /\ articles[i].sku = sku
        /\ \A j \in DOMAIN articles : articles[j].sku = sku => i <= j

\* The index in articles of the record articles_lookup keeps for a key: the
\* dict comprehension stores every record in turn, so the last one stays.
KeptIndex(articles, sku) ==
    CHOOSE i \in DOMAIN articles :
        /\ articles[i].sku = sku
        /\ \A j \in DOMAIN articles : articles[j].sku = sku => j <= i

\* articles_lookup = {article['sku']: article for ... if article.get('sku')}
ArticlesLookup(articles) ==
    [sku \in ArticleKeys(articles) |-> articles[KeptIndex(articles, sku)]]

\* The indexes of the price entries the loop stores under prices_lookup[sku].
StoredPrices(prices, sku) ==
    {i \in DOMAIN prices :
        /\ prices[i].sku = sku
        /\ TruthySku(prices[i].sku)
        /\ TruthyId(prices[i].lista_id)}

\* Faulty variant of SkuPrices: the first entry of a list id stays.
SkuPrices_FirstWins(prices, sku) ==
    LET stored == StoredPrices(prices, sku)
        ids == {prices[i].lista_id : i \in stored}
        first(id) == CHOOSE i \in stored :
                         /\ prices[i].lista_id = id
                         /\ \A j \in stored : prices[j].lista_id = id => i <= j
    IN  [id \in ids |-> prices[first(id)]]

\* prices_lookup.get(sku, {}): list id -> entry, a later entry replacing an
\* earlier one of the same list id.
SkuPrices(prices, sku) ==
    LET stored == StoredPrices(prices, sku)
        ids == {prices[i].lista_id : i \in stored}
        last(id) == CHOOSE i \in stored :
                        /\ prices[i].lista_id = id
                        /\ \A j \in stored : prices[j].lista_id = id => j <= i
    IN  [id \in ids |-> prices[last(id)]]

\* An empty cell, ''.
Blank == <<>>

\* Faulty variant of IvaDisplay: the rate of list 1, or else of any list the
\* SKU has an entry for.
IvaDisplay_AnyList(sku_prices) ==
    IF DOMAIN sku_prices = {} THEN <<>>
    ELSE LET id == IF 1 \in DOMAIN sku_prices THEN 1
                   ELSE CHOOSE k \in DOMAIN sku_prices : TRUE
         IN  <<sku_prices[id].iva_tasa \div 10, sku_prices[id].iva_tasa % 10>>

\* str(round(float(iva_rate) * 100, 1)).replace('.', ','): the percentage
\* with one decimal, as <<integer part, decimal digit>>.
IvaDisplay(sku_prices) ==
    IF 1 \in DOMAIN sku_prices
    THEN <<sku_prices[1].iva_tasa \div 10, sku_prices[1].iva_tasa % 10>>
    ELSE Blank

\* The cell of one price column: round(float(precio_unitario), 2) or ''.
PriceCell(sku_prices, lista_id) ==
    IF lista_id \in DOMAIN sku_prices
    THEN <<sku_prices[lista_id].precio_unitario>>
    ELSE Blank

\* The order of Python strings: a < b.
RECURSIVE LexLess(_, _)
LexLess(a, b) ==
    IF b = <<>> THEN FALSE
    ELSE IF a = <<>> THEN TRUE
    ELSE IF Head(a) # Head(b) THEN Head(a) < Head(b)
    ELSE LexLess(Tail(a), Tail(b))

RECURSIVE Sorted_ShortestFirst(_)
\* Faulty variant of Sorted: the order of the numbers the SKUs spell, a
\* shorter SKU before a longer one.
Sorted_ShortestFirst(skus) ==
    IF skus = {} THEN <<>>
    ELSE LET least == CHOOSE s \in skus : \A o \in skus \ {s} :
                         \/ Len(s) < Len(o)
                         \/ Len(s) = Len(o) /\ LexLess(s, o)
         IN  <<least>> \o Sorted_ShortestFirst(skus \ {least})

RECURSIVE Sorted(_)
\* sorted(all_skus)
Sorted(skus) ==
    IF skus = {} THEN <<>>
    ELSE LET least == CHOOSE s \in skus : \A o \in skus \ {s} : LexLess(s, o)
         IN  <<least>> \o Sorted(skus \ {least})

\* The header row (the accents of the first and third label are left out).
Header ==
    <<"Codigo", "Tipo", "Articulo", "Grupo", "Marca", "IVA",
      "Minorista Ars", "Dealer Ars", "Dealer 1 Ars", "Dealer 30d Ars",
      "Nautica Dealer Usd", "Dealer 60d Ars", "Mino Ml Premium Ars",
      "Sub Distribuidor Usd", "Dealer 55mkup Ars", "Dealer 50mkup Ars",
      "Anterior Mino Ars", "Mixta Ars", "Grouping 70mkup Ars",
      "Dealer Cencosud Ars", "Nautica Dealer 1 Usd", "Nautica Dealer Ars",
      "Nautica Dealer 1 Ars", "Fob Standard Usd", "Dealer Golf Ars",
      "Gpsmundo Srl", "Dealer Meli Ars", "Dealer 5g Ars",
      "Fob Supplier Llc", "Dealer Diggit Ars">>

\* articles_lookup.get(sku, {}) as the row reads it: the attributes of a SKU
\* without an article read as ''.
ArticleOf(articles_lookup, sku) ==
    IF sku \in DOMAIN articles_lookup
    THEN articles_lookup[sku]
    ELSE [sku |-> EmptySku, nombre |-> "", tipo |-> "", marca |-> "", grupo |-> ""]

\* Faulty variant of Row: a price cell only for the lists the SKU has an
\* entry for.
Row_OnlyListsPresent(article, sku, sku_prices) ==
    LET present == SelectSeq(PublishedLists, LAMBDA id : id \in DOMAIN sku_prices)
    IN  <<sku, article.tipo, article.nombre, article.grupo, article.marca,
          IvaDisplay(sku_prices)>>
        \o [i \in 1..Len(present) |-> PriceCell(sku_prices, present[i])]

\* One data row: the six attribute cells, then one cell per published list.
Row(article, sku, sku_prices) ==
    <<sku, article.tipo, article.nombre, article.grupo, article.marca,
      IvaDisplay(sku_prices)>>
    \o [i \in 1..Len(PublishedLists) |-> PriceCell(sku_prices, PublishedLists[i])]

\* Faulty variant of AllSkus: the keys of both lookups.
AllSkus_WithPriceSkus(articles, prices) ==
    DOMAIN ArticlesLookup(articles)
    \cup {prices[i].sku : i \in DOMAIN prices}

\* all_skus = set(articles_lookup.keys())
AllSkus(articles, prices) == DOMAIN ArticlesLookup(articles)

\* combine_data(articles, prices): the header and one row per key, sorted.
combine_data(articles, prices) ==
    LET articles_lookup == ArticlesLookup(articles)
        order == Sorted(AllSkus(articles, prices))
    IN  <<Header>>
        \o [i \in 1..Len(order) |->
               Row(ArticleOf(articles_lookup, order[i]), order[i],
                   SkuPrices(prices, order[i]))]

\* ------------------------------------------------------------------- state

VARIABLES
    pc,               \* where main() is: the call it makes next
    missing,          \* a required setting is missing from the configuration
    env_price_lists,  \* the PRICE_LISTS override, split at the commas
    price_lists,      \* config['price_lists']
    page,             \* the page variable of the running fetch loop
    lista,            \* the position in price_lists of the outer loop
    articles,         \* the articles list of get_articles
    prices,           \* the prices list of get_prices
    combined_data,    \* the table combine_data returned (<<>> before)
    sheet,            \* the worksheet: what it holds
    requests,         \* history: the requests sent to the Caddis API
    sink_calls,       \* history: how often each call was made on the worksheet
    last,             \* history: the answer to the last page request
    catalog_active,   \* history: delivered article records that are not inactive
    catalog_inactive, \* history: the SKUs of delivered inactive article records
    n_records,        \* history: upstream records delivered
    price_numeric,    \* history: delivered price records with numeric fields
    slept,            \* history: time.sleep ran after the last page request
    untracked_odd,    \* history: an odd number of pages past the record budget
    sink_error,       \* history: the worksheet call that raised last, "" if none
    failed_in         \* history: the call that raised, "" while none has

vars ==
    <<pc, missing, env_price_lists, price_lists, page, lista, articles, prices,
      combined_data, sheet, requests, sink_calls, last, catalog_active,
      catalog_inactive, n_records, price_numeric, slept, untracked_odd,
      sink_error, failed_in>>

\* The driver phase a call of main() belongs to.
Phase(at) ==
    CASE at \in {"load_config", "caddis_init", "sheets_init"} -> "Init"
      [] at = "get_articles" -> "FetchCatalog"
      [] at = "get_prices" -> "FetchPrices"
      [] at = "combine_data" -> "Reconcile"
      [] at \in {"worksheet", "clear", "update", "format"} -> "Publish"
      [] at = "done" -> "Done"
      [] at = "failed" -> "Failed"

\* A request to the Caddis API.
Login == [endpoint |-> "login", lista_id |-> 0, pagina |-> 0]
ArticlesRequest(p) == [endpoint |-> "articulos", lista_id |-> 0, pagina |-> p]
PricesRequest(id, p) == [endpoint |-> "precios", lista_id |-> id, pagina |-> p]

NoResponse == Resp("none", <<>>)

\* estado equals "INACTIVO" when letter case is ignored.
IsInactivo(estado) == estado \in {"INACTIVO", "inactivo"}

\* A price record both of whose numeric fields hold a number.
IsNumericRecord(item) ==
    item.precio_unitario.t = "num" /\ item.iva_tasa.t = "num"

\* An article record that is not inactive.
IsActive(article) == ~IsInactivo(article.estado)

Init ==
    /\ pc = "load_config"
    /\ missing \in BOOLEAN
    /\ env_price_lists \in EnvPriceLists
    /\ price_lists = <<>>
    /\ page = 0
    /\ lista = 0
    /\ articles = <<>>
    /\ prices = <<>>
    /\ combined_data = <<>>
    /\ sheet = [content |-> "previous", data |-> <<>>]
    /\ requests = <<>>
    /\ sink_calls = [worksheet |-> 0, clear |-> 0, update |-> 0]
    /\ last = NoResponse
    /\ catalog_active = <<>>
    /\ catalog_inactive = {}
    /\ n_records = 0
    /\ price_numeric = <<>>
    /\ slept = FALSE
    /\ untracked_odd = FALSE
    /\ sink_error = ""
    /\ failed_in = ""

\* except Exception in main: log and sys.exit(1).
Fail ==
    /\ pc' = "failed"
    /\ failed_in' = pc

fetch_vars ==
    <<page, lista, articles, prices, last, catalog_active, catalog_inactive,
      n_records, price_numeric, slept, untracked_odd>>

\* Faulty variant of LoadConfig: the required settings are not checked.
LoadConfig_NoValidation ==
    /\ pc = "load_config"
    /\ price_lists' = LoadPriceLists(env_price_lists)
    /\ pc' = "caddis_init"
    /\ UNCHANGED <<missing, env_price_lists, combined_data, sheet, requests,
                   sink_calls, sink_error, failed_in>>
    /\ UNCHANGED fetch_vars

\* main: load_config() and the check of the required settings.
LoadConfig ==
    /\ pc = "load_config"
    /\ price_lists' = LoadPriceLists(env_price_lists)
    /\ IF missing
       THEN Fail
       ELSE pc' = "caddis_init" /\ UNCHANGED failed_in
    /\ UNCHANGED <<missing, env_price_lists, combined_data, sheet, requests,
                   sink_calls, sink_error>>
    /\ UNCHANGED fetch_vars

\* CaddisAPIClient(...): _authenticate posts the login and raises unless the
\* answer carries a token.
CaddisInit ==
    /\ pc = "caddis_init"
    /\ requests' = Append(requests, Login)
    /\ \E token \in BOOLEAN :
          IF token
          THEN pc' = "sheets_init" /\ UNCHANGED failed_in
          ELSE Fail
    /\ UNCHANGED <<missing, env_price_lists, price_lists, combined_data, sheet,
                   sink_calls, sink_error>>
    /\ UNCHANGED fetch_vars

\* GoogleSheetsClient(...): credentials and open_by_key, either may raise.
\* On success main goes on to get_articles, which starts at page 1.
SheetsInit ==
    /\ pc = "sheets_init"
    /\ \E opened \in BOOLEAN :
          IF opened
          THEN pc' = "get_articles" /\ page' = 1 /\ UNCHANGED failed_in
          ELSE Fail /\ UNCHANGED page
    /\ UNCHANGED <<missing, env_price_lists, price_lists, combined_data, sheet,
                   requests, sink_calls, sink_error, lista, articles, prices, last,
                   catalog_active, catalog_inactive, n_records, price_numeric,
                   slept, untracked_odd>>

\* One turn of the while loop of get_articles: the request of the page and
\* what is done with the answer.  When the loop ends, get_articles returns and
\* main calls get_prices, whose loops start at the first list and page 1.
GetArticlesPage ==
    /\ pc = "get_articles"
    /\ \E resp \in Responses(UpstreamArticles, MalformedArticles,
                             MaxRecords - n_records) :
          /\ requests' = Append(requests, ArticlesRequest(page))
          /\ last' = resp
          /\ n_records' = n_records + Len(resp.batch)
          /\ slept' = (ArticlesOutcome(resp) = "next")
          /\ untracked_odd' = FALSE
          /\ catalog_active' =
                catalog_active
                \o SelectSeq(resp.batch, IsActive)
          /\ catalog_inactive' =
                catalog_inactive
                \cup {resp.batch[i].sku :
                        i \in {j \in DOMAIN resp.batch :
                                 IsInactivo(resp.batch[j].estado)}}
          /\ CASE ArticlesOutcome(resp) = "next" ->
                    /\ articles' = articles \o ExtractArticles(ArticlesData(resp))
                    /\ page' = page + 1
                    /\ UNCHANGED <<pc, lista, failed_in>>
               [] ArticlesOutcome(resp) = "stop" ->
                    /\ pc' = "get_prices"
                    /\ lista' = 1
                    /\ page' = 1
                    /\ UNCHANGED <<articles, failed_in>>
               [] ArticlesOutcome(resp) = "raise" ->
                    /\ Fail
                    /\ UNCHANGED <<articles, page, lista>>
    /\ UNCHANGED <<missing, env_price_lists, price_lists, prices, combined_data,
                   sheet, sink_calls, sink_error, price_numeric>>

\* One turn of the inner while loop of get_prices for the list at position
\* lista.  A break goes on to the next list at page 1, or returns after the
\* last list; main then calls combine_data.
GetPricesPage ==
    /\ pc = "get_prices"
    /\ lista \in DOMAIN price_lists
    /\ \E resp \in Responses(UpstreamPrices, MalformedPrices,
                             MaxRecords - n_records) :
          LET lista_id == price_lists[lista]
          IN  /\ requests' = Append(requests, PricesRequest(lista_id, page))
              /\ last' = resp
              /\ n_records' = n_records + Len(resp.batch)
              /\ slept' = (PricesOutcome(resp) = "next")
              /\ untracked_odd' = FALSE
              /\ price_numeric' =
                    price_numeric
                    \o [i \in DOMAIN SelectSeq(resp.batch, IsNumericRecord) |->
                          [lista_id |-> lista_id,
                           item |-> SelectSeq(resp.batch, IsNumericRecord)[i]]]
              /\ CASE PricesOutcome(resp) = "next" ->
                        /\ prices' =
                              prices \o ExtractPrices(PricesData(resp), lista_id)
                        /\ page' = page + 1
                        /\ UNCHANGED <<pc, lista, failed_in>>
                   [] PricesOutcome(resp) = "stop" ->
                        /\ IF lista < Len(price_lists)
                           THEN lista' = lista + 1 /\ page' = 1 /\ UNCHANGED pc
                           ELSE pc' = "combine_data" /\ UNCHANGED <<lista, page>>
                        /\ UNCHANGED <<prices, failed_in>>
                   [] PricesOutcome(resp) = "raise" ->
                        /\ Fail
                        /\ UNCHANGED <<prices, page, lista>>
    /\ UNCHANGED <<missing, env_price_lists, price_lists, articles,
                   combined_data, sheet, sink_calls, sink_error, catalog_active,
                   catalog_inactive>>

\* A page with records past the record budget MaxRecords.
MorePage == Resp("more", <<>>)

\* A turn of a fetch loop for a page with records once MaxRecords records were
\* delivered: the loops have no page cap and go on for as long as pages with
\* records come.  The records, the request and the page number of such a turn
\* are not kept; only its sleep and the parity of such turns are, so that
\* each is a step.
MoreTurn ==
    /\ n_records = MaxRecords
    /\ last' = MorePage
    /\ slept' = TRUE
    /\ untracked_odd' = ~untracked_odd
    /\ UNCHANGED <<pc, missing, env_price_lists, price_lists, page, lista,
                   articles, prices, combined_data, sheet, requests, sink_calls,
                   catalog_active, catalog_inactive, n_records, price_numeric,
                   sink_error, failed_in>>

\* get_articles: a turn of the while loop past the record budget.
GetArticlesMore ==
    /\ pc = "get_articles"
    /\ MoreTurn

\* get_prices: a turn of the inner while loop past the record budget.
GetPricesMore ==
    /\ pc = "get_prices"
    /\ lista \in DOMAIN price_lists
    /\ MoreTurn

\* Faulty variant of CombineData: main ends without publishing when the table
\* has no data row.
CombineData_SkipsEmptyTable ==
    /\ pc = "combine_data"
    /\ combined_data' = combine_data(articles, prices)
    /\ pc' = IF Len(combine_data(articles, prices)) = 1 THEN "done" ELSE "worksheet"
    /\ UNCHANGED <<missing, env_price_lists, price_lists, sheet, requests,
                   sink_calls, sink_error, failed_in>>
    /\ UNCHANGED fetch_vars

\* main: combined_data = DataProcessor.combine_data(articles, prices).
CombineData ==
    /\ pc = "combine_data"
    /\ combined_data' = combine_data(articles, prices)
    /\ pc' = "worksheet"
    /\ UNCHANGED <<missing, env_price_lists, price_lists, sheet, requests,
                   sink_calls, sink_error, failed_in>>
    /\ UNCHANGED fetch_vars

\* ------------------------------------------------------------ update_sheet

driver_vars ==
    <<missing, env_price_lists, price_lists, combined_data, requests>>

\* One more call of a kind on the worksheet.
Called(kind) == [sink_calls EXCEPT ![kind] = @ + 1]

\* spreadsheet.worksheet(sheet_name); on WorksheetNotFound, add_worksheet,
\* which makes a new, empty worksheet.  Any other error, and an error of
\* add_worksheet, leaves update_sheet.
Worksheet ==
    /\ pc = "worksheet"
    /\ sink_calls' = Called("worksheet")
    /\ \E answer \in {"found", "not_found", "error"} :
          CASE answer = "found" ->
                 /\ pc' = "clear"
                 /\ UNCHANGED <<sheet, sink_error, failed_in>>
            [] answer = "error" ->
                 /\ sink_error' = "worksheet"
                 /\ Fail
                 /\ UNCHANGED sheet
            [] answer = "not_found" ->
                 \E added \in BOOLEAN :
                    IF added
                    THEN /\ sheet' = [content |-> "created", data |-> <<>>]
                         /\ pc' = "clear"
                         /\ UNCHANGED <<sink_error, failed_in>>
                    ELSE /\ sink_error' = "add_worksheet"
                         /\ Fail
                         /\ UNCHANGED sheet
    /\ UNCHANGED driver_vars
    /\ UNCHANGED fetch_vars

\* The worksheet after worksheet.clear(): what it held is gone; a worksheet
\* add_worksheet has just made holds nothing and stays as it is.
Cleared(worksheet) ==
    IF worksheet.content = "created" THEN worksheet
    ELSE [content |-> "empty", data |-> <<>>]

\* Faulty variant of Clear: its error is logged and dropped, as an error of
\* format is.
Clear_ErrorDropped ==
    /\ pc = "clear"
    /\ sink_calls' = Called("clear")
    /\ \E applied \in BOOLEAN, raised \in BOOLEAN :
          /\ applied \/ raised
          /\ sheet' = IF applied THEN Cleared(sheet) ELSE sheet
          /\ sink_error' = IF raised THEN "clear" ELSE sink_error
          /\ pc' = "update"
          /\ UNCHANGED failed_in
    /\ UNCHANGED driver_vars
    /\ UNCHANGED fetch_vars

\* worksheet.clear().  The call raises or returns; the worksheet is cleared
\* when it returns, and may or may not be when it raises (an answer can be
\* lost after the service has acted).
Clear ==
    /\ pc = "clear"
    /\ sink_calls' = Called("clear")
    /\ \E applied \in BOOLEAN, raised \in BOOLEAN :
          /\ applied \/ raised
          /\ sheet' = IF applied THEN Cleared(sheet) ELSE sheet
          /\ IF raised
             THEN sink_error' = "clear" /\ Fail
             ELSE pc' = "update" /\ UNCHANGED <<sink_error, failed_in>>
    /\ UNCHANGED driver_vars
    /\ UNCHANGED fetch_vars

\* Faulty variant of Update: the table is written row by row, and a failed
\* write leaves the rows written before it.
Update_RowByRow ==
    /\ pc = "update"
    /\ sink_calls' = Called("update")
    /\ \E written \in BOOLEAN :
          IF written
          THEN /\ sheet' = [content |-> "table", data |-> combined_data]
               /\ pc' = "format"
               /\ UNCHANGED <<sink_error, failed_in>>
          ELSE /\ sheet' = [content |-> "table", data |-> <<Header>>]
               /\ sink_error' = "update"
               /\ Fail
    /\ UNCHANGED driver_vars
    /\ UNCHANGED fetch_vars

\* if data: worksheet.update('A1', data), one request that writes the whole
\* table.  The worksheet holds the table when the call returns, and may or
\* may not when it raises.
Update ==
    /\ pc = "update"
    /\ IF combined_data = <<>>
       THEN pc' = "done" /\ UNCHANGED <<sheet, sink_calls, sink_error, failed_in>>
       ELSE /\ sink_calls' = Called("update")
            /\ \E applied \in BOOLEAN, raised \in BOOLEAN :
                  /\ applied \/ raised
                  /\ sheet' = IF applied
                              THEN [content |-> "table", data |-> combined_data]
                              ELSE sheet
                  /\ IF raised
                     THEN sink_error' = "update" /\ Fail
                     ELSE pc' = "format" /\ UNCHANGED <<sink_error, failed_in>>
    /\ UNCHANGED driver_vars
    /\ UNCHANGED fetch_vars

\* The two worksheet.format calls: an error of either is logged and dropped,
\* so with or without one update_sheet returns to main, which ends.
Format ==
    /\ pc = "format"
    /\ \E format_error \in BOOLEAN :
          sink_error' = IF format_error THEN "format" ELSE sink_error
    /\ pc' = "done"
    /\ UNCHANGED <<sheet, sink_calls, failed_in>>
    /\ UNCHANGED driver_vars
    /\ UNCHANGED fetch_vars

Next ==
    \/ LoadConfig
    \/ CaddisInit
    \/ SheetsInit
    \/ GetArticlesPage
    \/ GetArticlesMore
    \/ GetPricesPage
    \/ GetPricesMore
    \/ CombineData
    \/ Worksheet
    \/ Clear
    \/ Update
    \/ Format

Spec == Init /\ [][Next]_vars

\* main runs to its end: every call returns or raises (the requests carry a
\* timeout of 30 s), so a step that can be taken is taken.
FairSpec == Spec /\ WF_vars(Next)

\* ------------------------------------------------- vocabulary of the claims

\* The page requests sent so far to each endpoint, in order.
CatalogRequests == SelectSeq(requests, LAMBDA r : r.endpoint = "articulos")
PriceRequests == SelectSeq(requests, LAMBDA r : r.endpoint = "precios")

\* This step sends a page request to the endpoint.
Asks(endpoint) ==
    /\ Len(requests') = Len(requests) + 1
    /\ requests'[Len(requests')].endpoint = endpoint

\* The last request sent went to the endpoint.
Asked(endpoint) ==
    /\ requests # <<>>
    /\ requests[Len(requests)].endpoint = endpoint

\* An answer that is a transport or protocol error: no HTTP response at all,
\* or an error status other than 404.
IsTransportError(resp) == resp.kind \in {"http_error", "no_response"}

\* An answer that is the exhaustion signal: a 404, or a page with no records.
IsExhaustion(resp) ==
    resp.kind = "not_found" \/ (resp.kind = "ok" /\ resp.batch = <<>>)

\* An answer that is a page with records.
IsDataPage(resp) == resp.kind = "ok" /\ resp.batch # <<>>

\* The calls of main() that run before the Publish phase.
BeforePublish ==
    {"load_config", "caddis_init", "sheets_init", "get_articles", "get_prices",
     "combine_data"}

\* main() has returned from get_prices.
PricesReturned ==
    \/ Phase(pc) \in {"Reconcile", "Publish", "Done"}
    \/ failed_in \in {"combine_data", "worksheet", "clear", "update", "format"}

\* The data rows of a table.
Rows(table) == IF table = <<>> THEN <<>> ELSE Tail(table)

\* The SKUs of the data rows of a table.
RowSkus(table) == {Rows(table)[i][1] : i \in DOMAIN Rows(table)}

\* The SKUs of the records of a sequence.
SkusOf(records) == {records[i].sku : i \in DOMAIN records}

\* ---------------------------------------------------------------- claim C1

\* C1: a transport or protocol error (no HTTP response, or an error status
\* other than 404) on a page of one price list does not abort get_prices: the
\* run does not fail in get_prices, the fetch goes on at page 1 of the next
\* list, and when get_prices has returned page 1 of every configured list was
\* requested.
C1_PriceErrorIsListScoped ==
    /\ (Asked("precios") /\ IsTransportError(last)) =>
          /\ failed_in # "get_prices"
          /\ pc = "get_prices" => page = 1
    /\ PricesReturned =>
          \A i \in DOMAIN price_lists :
             \E j \in DOMAIN requests :
                requests[j] = PricesRequest(price_lists[i], 1)

\* ---------------------------------------------------------------- claim C2

NoSinkCalls == [worksheet |-> 0, clear |-> 0, update |-> 0]
UntouchedSheet == [content |-> "previous", data |-> <<>>]

\* C2: a transport or protocol error on a catalogue page makes get_articles
\* raise and the run end Failed; in a run that failed there no price request
\* was sent, no table was built, the worksheet was neither cleared nor
\* written, and nothing more happens.
C2_CatalogErrorIsFatal ==
    /\ [][(Asks("articulos") /\ IsTransportError(last')) =>
             (pc' = "failed" /\ failed_in' = "get_articles")]_vars
    /\ [](failed_in = "get_articles" =>
             /\ pc = "failed"
             /\ PriceRequests = <<>>
             /\ combined_data = <<>>
             /\ sheet = UntouchedSheet
             /\ sink_calls = NoSinkCalls)
    /\ [][failed_in = "get_articles" => UNCHANGED vars]_vars

\* A catalogue that failed on a later page, for want of any response, after
\* articles had been extracted.
C2_Witness ==
    /\ pc = "failed"
    /\ failed_in = "get_articles"
    /\ last.kind = "no_response"
    /\ articles # <<>>
    /\ Len(CatalogRequests) >= 2

\* ---------------------------------------------------------------- claim C3

\* A delivered article record as get_articles is to return it: every field
\* but estado.
Returned(article) ==
    [sku |-> article.sku, nombre |-> article.nombre, tipo |-> article.tipo,
     marca |-> article.marca, grupo |-> article.grupo]

\* C3: get_articles requests the catalogue pages 1, 2, 3, ... in order, each
\* once; at the first page answered by a 404 or by an empty batch it stops
\* without error and requests no further page; what it holds is, at any time,
\* exactly the delivered records that are not inactive, in order; and a
\* catalogue that ends at page 1 gives no articles and a header-only table.
C3_CatalogPaging ==
    /\ [](\A i \in DOMAIN CatalogRequests : CatalogRequests[i].pagina = i)
    /\ [][(Asks("articulos") /\ IsExhaustion(last')) =>
             (pc' = "get_prices" /\ failed_in' = "" /\ articles' = articles)]_vars
    /\ [][pc # "get_articles" => CatalogRequests' = CatalogRequests]_vars
    /\ [](articles = [i \in DOMAIN catalog_active |-> Returned(catalog_active[i])])
    /\ []((Len(CatalogRequests) = 1 /\ pc # "get_articles") =>
             /\ articles = <<>>
             /\ combined_data \in {<<>>, <<Header>>})

\* The catalogue ended by a 404 on page 3, with an inactive record among the
\* delivered ones and an article extracted.
C3_Witness ==
    /\ pc = "get_prices"
    /\ Asked("articulos")
    /\ last.kind = "not_found"
    /\ Len(CatalogRequests) = 3
    /\ catalog_inactive # {}
    /\ articles # <<>>

\* ---------------------------------------------------------------- claim C4

\* prices holds one entry for each delivered price record with numeric
\* fields, in order, with the record's SKU and tax rate and the id of the list
\* whose page delivered it.
PricesAreTheNumericRecords ==
    /\ Len(prices) = Len(price_numeric)
    /\ \A i \in DOMAIN prices :
          /\ prices[i].sku = price_numeric[i].item.sku
          /\ prices[i].lista_id = price_numeric[i].lista_id
          /\ prices[i].iva_tasa = price_numeric[i].item.iva_tasa.v

\* The price requests go list by list: page 1 first, then the next page of the
\* same list.
PricePagesInOrder ==
    \A i \in DOMAIN PriceRequests :
       PriceRequests[i].pagina =
          IF i = 1 \/ PriceRequests[i - 1].lista_id # PriceRequests[i].lista_id
          THEN 1
          ELSE PriceRequests[i - 1].pagina + 1

\* C4: in get_prices a 404 or an empty batch on a page of list L ends the
\* loop of L only: no error, no entry added, and the fetch goes on at page 1
\* of the next configured list (or get_prices returns after the last one);
\* every list contributes exactly the convertible records its pages delivered.
C4_ExhaustionIsListScoped ==
    /\ [][(Asks("precios") /\ IsExhaustion(last')) =>
             /\ failed_in' = ""
             /\ prices' = prices
             /\ IF lista < Len(price_lists)
                THEN pc' = "get_prices" /\ lista' = lista + 1 /\ page' = 1
                ELSE pc' = "combine_data"]_vars
    /\ []PricesAreTheNumericRecords
    /\ []PricePagesInOrder

\* The first list ended by a 404 on its page 2 after contributing entries, and
\* the second list is about to be asked for page 1.
C4_Witness ==
    /\ pc = "get_prices"
    /\ Asked("precios")
    /\ last.kind = "not_found"
    /\ requests[Len(requests)] = PricesRequest(price_lists[1], 2)
    /\ lista = 2
    /\ page = 1
    /\ prices # <<>>

\* ---------------------------------------------------------------- claim C5

\* C5: every SKU of a row of the table built, and of the table in the
\* worksheet, is the SKU of a delivered article record that is not inactive;
\* get_articles returns no record of any other SKU.
C5_InactiveNeverPublished ==
    /\ RowSkus(combined_data) \subseteq SkusOf(catalog_active)
    /\ RowSkus(sheet.data) \subseteq SkusOf(catalog_active)
    /\ SkusOf(articles) \subseteq SkusOf(catalog_active)

\* A published table with a row, and without one for a SKU that has a price
\* entry and whose only article records are inactive.
C5_Witness ==
    /\ pc = "done"
    /\ sheet.content = "table"
    /\ Rows(sheet.data) # <<>>
    /\ \E sku \in catalog_inactive :
          /\ sku \notin SkusOf(catalog_active)
          /\ sku \in SkusOf(prices)
          /\ sku \notin RowSkus(sheet.data)

\* ---------------------------------------------------------------- claim C6

\* The non-empty SKUs of the articles get_articles returned.
ArticleSkus == {sku \in SkusOf(articles) : sku # EmptySku}

\* C6: the rows of the table are keyed by exactly the non-empty SKUs of the
\* articles, one row each, whatever the price entries.
C6_RowKeysAreArticleSkus ==
    combined_data # <<>> =>
       /\ RowSkus(combined_data) = ArticleSkus
       /\ Len(Rows(combined_data)) = Cardinality(ArticleSkus)

\* A table of one row, built from an article with a SKU, an article without
\* one, and a price entry for a SKU no article has.
C6_Witness ==
    /\ combined_data # <<>>
    /\ Len(Rows(combined_data)) = 1
    /\ EmptySku \in SkusOf(articles)
    /\ \E i \in DOMAIN prices : prices[i].sku \notin SkusOf(articles)

\* ---------------------------------------------------------------- claim C7

\* The phase that follows a phase when nothing fails.
NextPhase(phase) ==
    CASE phase = "Init" -> "FetchCatalog"
      [] phase = "FetchCatalog" -> "FetchPrices"
      [] phase = "FetchPrices" -> "Reconcile"
      [] phase = "Reconcile" -> "Publish"
      [] phase = "Publish" -> "Done"
      [] OTHER -> phase

\* C7: the run starts in Init and every step stays in its phase, moves to the
\* next phase of Init, FetchCatalog, FetchPrices, Reconcile, Publish, Done, or
\* moves from a phase before Done to Failed; Done and Failed are final, and
\* a run is Failed exactly when a call has raised.
C7_PhaseOrder ==
    /\ Phase(pc) = "Init"
    /\ [][\/ Phase(pc') = Phase(pc)
          \/ Phase(pc') = NextPhase(Phase(pc))
          \/ Phase(pc') = "Failed" /\ Phase(pc) # "Done"]_vars
    /\ [][Phase(pc) \in {"Done", "Failed"} => UNCHANGED vars]_vars
    /\ [](Phase(pc) = "Failed" <=> failed_in # "")

\* A run that went through every phase and published a table with a row.
C7_Witness ==
    /\ Phase(pc) = "Done"
    /\ failed_in = ""
    /\ Len(sheet.data) >= 2

\* ---------------------------------------------------------------- claim C8

\* C8: the worksheet is written at most once; what it then holds is the whole
\* table combine_data returned, one row for every article SKU under the
\* header; no call clears or writes it before that table exists; and a run
\* that failed before the Publish phase left the worksheet untouched.
C8_PublishAllOrNothing ==
    /\ sink_calls.update <= 1
    /\ sheet.content = "table" =>
          /\ sink_calls.update = 1
          /\ combined_data # <<>>
          /\ sheet.data = combined_data
          /\ Len(sheet.data) = 1 + Cardinality(ArticleSkus)
    /\ sink_calls # NoSinkCalls => combined_data # <<>>
    /\ failed_in \in BeforePublish =>
          /\ sheet = UntouchedSheet
          /\ sink_calls = NoSinkCalls

\* A run that published a table of two rows.
C8_Witness ==
    /\ pc = "done"
    /\ sheet.content = "table"
    /\ sink_calls.update = 1
    /\ Len(Rows(sheet.data)) = 2

\* ---------------------------------------------------------------- claim C9

\* C9: every entry get_prices holds carries the id of one of the 24 published
\* price lists.
C9_ListIdsArePublished ==
    \A i \in DOMAIN prices : prices[i].lista_id \in PRICE_LIST_MAPPING

\* --------------------------------------------------------------- claim C10

\* The records of a batch with numeric fields, in order.
NumericOf(batch) == SelectSeq(batch, IsNumericRecord)

\* Some record of a batch has a field that is not numeric.
HasUnconvertible(batch) == \E i \in DOMAIN batch : ~IsNumericRecord(batch[i])

\* C10: a price page holding a record whose base price or tax rate is not
\* numeric raises nothing and ends nothing: the fetch stays in the same list
\* and goes on to the next page, and the page adds one entry for each of its
\* other records, in order; so prices holds, at any time, an entry for every
\* delivered record with numeric fields.
C10_ConversionErrorSkipsTheRecord ==
    /\ [][(Asks("precios") /\ IsDataPage(last') /\ HasUnconvertible(last'.batch)) =>
             /\ pc' = "get_prices"
             /\ failed_in' = ""
             /\ lista' = lista
             /\ page' = page + 1
             /\ Len(prices') = Len(prices) + Len(NumericOf(last'.batch))
             /\ \A i \in DOMAIN NumericOf(last'.batch) :
                   /\ prices'[Len(prices) + i].sku = NumericOf(last'.batch)[i].sku
                   /\ prices'[Len(prices) + i].lista_id = price_lists[lista]
             /\ \A i \in DOMAIN prices : prices'[i] = prices[i]]_vars
    /\ [](Len(prices) = Len(price_numeric))

\* A page of two records, the first not numeric, was answered; the second
\* record became an entry and the fetch goes on in the same list.
C10_Witness ==
    /\ pc = "get_prices"
    /\ Asked("precios")
    /\ IsDataPage(last)
    /\ Len(last.batch) = 2
    /\ ~IsNumericRecord(last.batch[1])
    /\ IsNumericRecord(last.batch[2])
    /\ prices # <<>>
    /\ prices[Len(prices)].sku = last.batch[2].sku
    /\ page >= 2

\* --------------------------------------------------------------- claim C11

\* The worksheet calls whose error leaves update_sheet.
SinkWriteCalls == {"worksheet", "add_worksheet", "clear", "update"}

\* The step of update_sheet in which a worksheet call is made.
StepOf(call) == IF call = "add_worksheet" THEN "worksheet" ELSE call

\* C11: an error of the worksheet lookup, of the worksheet creation, of clear
\* or of update ends the run Failed, in the step that made the call; and no
\* worksheet call is made a second time in a run.
C11_SinkErrorIsFatal ==
    /\ sink_error \in SinkWriteCalls =>
          /\ pc = "failed"
          /\ failed_in = StepOf(sink_error)
    /\ failed_in \in {"worksheet", "clear", "update"} =>
          sink_error \in SinkWriteCalls
    /\ \A call \in DOMAIN sink_calls : sink_calls[call] <= 1

\* A run that failed on an error of update, after the lookup and clear had
\* each been called once.
C11_Witness ==
    /\ pc = "failed"
    /\ sink_error = "update"
    /\ sink_calls = [worksheet |-> 1, clear |-> 1, update |-> 1]

\* --------------------------------------------------------------- claim C12

\* C12: a run with a required setting missing fails in the check of the
\* settings: no login and no page request is sent, no worksheet call is made
\* and the worksheet keeps its content.
C12_MissingSettingFailsFirst ==
    missing =>
       /\ pc \in {"load_config", "failed"}
       /\ pc = "failed" => failed_in = "load_config"
       /\ requests = <<>>
       /\ sink_calls = NoSinkCalls
       /\ sheet = UntouchedSheet
       /\ combined_data = <<>>

\* A run that failed for a missing setting.
C12_Witness ==
    /\ missing
    /\ pc = "failed"
    /\ failed_in = "load_config"

\* --------------------------------------------------------------- claim C13

\* C13: the header and every data row of the table combine_data returns have
\* 30 cells, 6 attribute cells and 24 price cells, whatever entries prices
\* holds.
C13_TableIsRectangular ==
    \A i \in DOMAIN combined_data :
       /\ Len(combined_data[i]) = 30
       /\ Len(combined_data[i]) = 6 + Cardinality(PRICE_LIST_MAPPING)

\* A table with a row for a SKU that has one price entry only, and that one
\* for a list id outside the 24 published ones.
C13_Witness ==
    /\ Len(combined_data) = 2
    /\ Len(prices) = 1
    /\ prices[1].sku = combined_data[2][1]
    /\ prices[1].lista_id \notin PRICE_LIST_MAPPING

\* --------------------------------------------------------------- claim C14

\* The place of a SKU in the order of strings: '' < '10' < '2'.
SkuRank(sku) ==
    CASE sku = <<>> -> 0
      [] sku = <<1, 0>> -> 1
      [] sku = <<2>> -> 2

\* C14: the data rows of the table are in strictly ascending order of their
\* SKUs as strings, so the order of the rows depends on the set of SKUs alone
\* and not on the order in which the records arrived.
C14_RowsAscendBySku ==
    \A i, j \in DOMAIN Rows(combined_data) :
       i < j => SkuRank(Rows(combined_data)[i][1]) < SkuRank(Rows(combined_data)[j][1])

\* A table whose rows are '10' then '2', built from articles that arrived as
\* '2' then '10'.
C14_Witness ==
    /\ Len(Rows(combined_data)) = 2
    /\ Rows(combined_data)[1][1] = <<1, 0>>
    /\ Rows(combined_data)[2][1] = <<2>>
    /\ \E i, j \in DOMAIN articles :
          i < j /\ articles[i].sku = <<2>> /\ articles[j].sku = <<1, 0>>

\* --------------------------------------------------------------- claim C15

\* The type, name, group and brand cells of a row are those of the article.
ShowsArticle(row, article) ==
    /\ row[2] = article.tipo
    /\ row[3] = article.nombre
    /\ row[4] = article.grupo
    /\ row[5] = article.marca

\* C15, as stated: of several articles with one SKU the first in fetch order
\* gives the row its type, name, group and brand.
C15_FirstArticleWins ==
    \A r \in DOMAIN Rows(combined_data) :
       \E i \in DOMAIN articles :
          /\ articles[i].sku = Rows(combined_data)[r][1]
          /\ \A j \in DOMAIN articles :
                articles[j].sku = articles[i].sku => i <= j
          /\ ShowsArticle(Rows(combined_data)[r], articles[i])

\* C15, amended: of several articles with one SKU the last in fetch order
\* gives the row its type, name, group and brand.
C15_LastArticleWins ==
    \A r \in DOMAIN Rows(combined_data) :
       \E i \in DOMAIN articles :
          /\ articles[i].sku = Rows(combined_data)[r][1]
          /\ \A j \in DOMAIN articles :
                articles[j].sku = articles[i].sku => j <= i
          /\ ShowsArticle(Rows(combined_data)[r], articles[i])

\* A table built from two articles of one SKU with different names.
C15_Witness ==
    /\ Len(Rows(combined_data)) = 1
    /\ \E i, j \in DOMAIN articles :
          /\ i < j
          /\ articles[i].sku = articles[j].sku
          /\ articles[i].sku = Rows(combined_data)[1][1]
          /\ articles[i].nombre # articles[j].nombre

\* --------------------------------------------------------------- claim C16

\* The indexes of the entries of prices for a SKU and a list id.
EntriesOf(sku, lista_id) ==
    {i \in DOMAIN prices : prices[i].sku = sku /\ prices[i].lista_id = lista_id}

\* The greatest index of a non-empty set of indexes.
LastOf(indexes) == CHOOSE i \in indexes : \A j \in indexes : j <= i

\* C16: in every row, the cell of each of the 24 price columns is blank when
\* prices holds no entry for the row's SKU and the column's list id, and
\* otherwise shows the price of the last such entry in fetch order.
C16_LastPriceEntryWins ==
    \A r \in DOMAIN Rows(combined_data) :
       \A k \in DOMAIN PublishedLists :
          LET row == Rows(combined_data)[r]
              entries == EntriesOf(row[1], PublishedLists[k])
          IN  row[6 + k] = IF entries = {} THEN <<>>
                           ELSE <<prices[LastOf(entries)].precio_unitario>>

\* A row whose SKU has two entries with different prices for list 1 and none
\* for list 2: the first price cell shows the later price and the second is
\* blank.
C16_Witness ==
    /\ Len(Rows(combined_data)) = 1
    /\ Len(prices) = 2
    /\ prices[1].sku = Rows(combined_data)[1][1]
    /\ prices[2].sku = Rows(combined_data)[1][1]
    /\ prices[1].lista_id = 1
    /\ prices[2].lista_id = 1
    /\ prices[1].precio_unitario # prices[2].precio_unitario
    /\ Rows(combined_data)[1][7] = <<prices[2].precio_unitario>>
    /\ Rows(combined_data)[1][8] = <<>>

\* --------------------------------------------------------------- claim C17

\* C17: the tax cell of a row is blank exactly when prices holds no entry for
\* the row's SKU and list id 1, whatever entries it holds for other lists, and
\* otherwise shows the tax rate of the last such entry as a percentage.
C17_TaxCellFromListOne ==
    \A r \in DOMAIN Rows(combined_data) :
       LET row == Rows(combined_data)[r]
           entries == EntriesOf(row[1], 1)
       IN  /\ row[6] # <<>> <=> entries # {}
           /\ entries # {} =>
                 row[6] = <<prices[LastOf(entries)].iva_tasa \div 10,
                            prices[LastOf(entries)].iva_tasa % 10>>

\* A row with a blank tax cell whose SKU has an entry with a tax rate, and a
\* price cell, for list 2.
C17_Witness ==
    /\ Len(Rows(combined_data)) = 1
    /\ Rows(combined_data)[1][6] = <<>>
    /\ Rows(combined_data)[1][8] # <<>>
    /\ \E i \in DOMAIN prices :
          /\ prices[i].sku = Rows(combined_data)[1][1]
          /\ prices[i].lista_id = 2
          /\ prices[i].iva_tasa > 0

\* --------------------------------------------------------------- claim C18

\* C18: whenever a page request follows a page request to the same endpoint
\* (the next catalogue page, the next price page of a list, or page 1 of the
\* next list after the last page of a list), time.sleep has run since the
\* earlier of the two was answered.
C18_DelayBetweenPageRequests ==
    [][\A endpoint \in {"articulos", "precios"} :
          (Asked(endpoint) /\ Asks(endpoint)) => slept]_vars

\* --------------------------------------------------------------- claim C19

\* update_sheet has returned or raised.
UpdateSheetEnded ==
    pc = "done" \/ (pc = "failed" /\ failed_in \notin BeforePublish)

\* The worksheet did not exist and add_worksheet made it: it holds nothing, as
\* before the call.
NewSheet == [content |-> "created", data |-> <<>>]

\* The worksheet held something and clear emptied it.
ClearedSheet == [content |-> "empty", data |-> <<>>]

\* C19, as stated: when update_sheet has returned or raised, the worksheet
\* holds the whole table built or what it held before the call.
C19_WholeTableOrPrevious ==
    UpdateSheetEnded =>
       \/ sheet \in {UntouchedSheet, NewSheet}
       \/ sheet = [content |-> "table", data |-> combined_data]

\* C19, amended: when update_sheet has returned or raised, the worksheet holds
\* the whole table built, what it held before the call, or nothing (it was
\* cleared and not written); it never holds a part of the table, it holds
\* the whole table when update_sheet returned, and it is left cleared only
\* when clear or update raised.
C19_WholeTablePreviousOrCleared ==
    UpdateSheetEnded =>
       /\ \/ sheet \in {UntouchedSheet, NewSheet, ClearedSheet}
          \/ sheet = [content |-> "table", data |-> combined_data]
       /\ pc = "done" => sheet = [content |-> "table", data |-> combined_data]
       /\ sheet = ClearedSheet => sink_error \in {"clear", "update"}

\* update raised after clear had emptied the worksheet, and the table with a
\* row was not written.
C19_Witness ==
    /\ pc = "failed"
    /\ failed_in = "update"
    /\ sink_error = "update"
    /\ sink_calls.clear = 1
    /\ sheet = ClearedSheet
    /\ Len(combined_data) >= 2

\* --------------------------------------------------------------- claim C20

\* The place in a row of the price cell of a published list.
ColumnOf(lista_id) ==
    6 + (CHOOSE k \in DOMAIN PublishedLists : PublishedLists[k] = lista_id)

\* The table holds a row for the SKU of the entry with a price in the column
\* of the entry's list.
Shown(table, entry) ==
    \E r \in DOMAIN Rows(table) :
       /\ Rows(table)[r][1] = entry.sku
       /\ Rows(table)[r][ColumnOf(entry.lista_id)] # <<>>

\* C20: an error status other than 404 on a page of a price list raises
\* nothing and drops nothing: the entries of the pages before stay in prices,
\* which holds at any time an entry for every delivered numeric record; and in
\* a run that ended Done the worksheet shows a price for every entry of an
\* article's SKU and a published list.
C20_ErrorKeepsEarlierPages ==
    /\ [][(Asks("precios") /\ last'.kind = "http_error") =>
             /\ prices' = prices
             /\ failed_in' = ""
             /\ pc' \in {"get_prices", "combine_data"}]_vars
    /\ []PricesAreTheNumericRecords
    /\ [](pc = "done" =>
             \A i \in DOMAIN prices :
                (prices[i].sku \in ArticleSkus
                 /\ prices[i].lista_id \in PRICE_LIST_MAPPING)
                => Shown(sheet.data, prices[i]))

\* A run that ended Done after page 2 of its last price list was answered by
\* an error status: the entry of page 1 of that list is in the worksheet.
C20_Witness ==
    /\ pc = "done"
    /\ last.kind = "http_error"
    /\ requests[Len(requests)].endpoint = "precios"
    /\ requests[Len(requests)].pagina = 2
    /\ \E i \in DOMAIN prices :
          /\ prices[i].lista_id = requests[Len(requests)].lista_id
          /\ prices[i].lista_id \in PRICE_LIST_MAPPING
          /\ Shown(sheet.data, prices[i])

\* --------------------------------------------------------------- claim C21

\* A 2xx answer without the records: no body; for the catalogue a body that
\* is not a list; for a price list a body that is not an object or an object
\* without the price array.
IsMalformed(resp) == resp.kind \in {"no_body", "bare_object", "scalar_body"}

\* C21: a 2xx page without the records ends its stream as an empty batch does:
\* nothing is raised and nothing collected is dropped; after such a catalogue
\* page the run goes on to the price lists, after such a price page to page 1
\* of the next list or to combine_data; and a run that ended Done published a
\* row for every article collected.
C21_MalformedPageEndsTheStream ==
    /\ [][(Asks("articulos") /\ IsMalformed(last')) =>
             /\ pc' = "get_prices"
             /\ failed_in' = ""
             /\ articles' = articles]_vars
    /\ [][(Asks("precios") /\ IsMalformed(last')) =>
             /\ failed_in' = ""
             /\ prices' = prices
             /\ IF lista < Len(price_lists)
                THEN pc' = "get_prices" /\ lista' = lista + 1 /\ page' = 1
                ELSE pc' = "combine_data"]_vars
    /\ [](pc = "done" => RowSkus(sheet.data) = ArticleSkus)

\* A run that ended Done after page 2 of its last price list came without the
\* price array: the entry of page 1 of that list is in the worksheet.
C21_Witness ==
    /\ pc = "done"
    /\ last.kind = "bare_object"
    /\ requests[Len(requests)].endpoint = "precios"
    /\ requests[Len(requests)].pagina = 2
    /\ \E i \in DOMAIN prices :
          /\ prices[i].lista_id = requests[Len(requests)].lista_id
          /\ prices[i].lista_id \in PRICE_LIST_MAPPING
          /\ Shown(sheet.data, prices[i])

\* --------------------------------------------------------------- claim C22

\* An answer that is a 404, an empty batch or an error.
IsSignal(resp) == IsExhaustion(resp) \/ IsTransportError(resp)

\* The last answer was a page with records.
RecordsCame == IsDataPage(last) \/ last = MorePage

\* The run is over.
Ended == pc \in {"done", "failed"}

\* C22: unless pages with records come for ever, which they do not when some
\* page of the catalogue and of every configured price list is answered by a
\* 404, an empty batch or an error, the run reaches Done or Failed.  The loops
\* end on nothing else: a page with records is always followed by the next
\* turn of the same loop, whatever the page number, and an answer that is a
\* signal ends the loop in the same step.
C22_SignalsEndTheRun ==
    /\ ([]<>(~RecordsCame)) => <>Ended
    /\ [][(pc \in {"get_articles", "get_prices"} /\ RecordsCame')
          => (pc' = pc /\ lista' = lista)]_vars
    /\ [][((Asks("articulos") \/ Asks("precios")) /\ IsSignal(last'))
          => (pc' # pc \/ lista' # lista)]_vars

\* A run that ended Done after the catalogue of several pages and both price
\* lists were ended by signals, the last one after the record budget was
\* used up.
C22_Witness ==
    /\ pc = "done"
    /\ Len(CatalogRequests) >= 2
    /\ Len(PriceRequests) >= 3
    /\ n_records = MaxRecords
    /\ IsSignal(last)

\* Every run reaches Done or Failed, whatever the upstream answers: this does
\* not hold, for pages with records can come for ever.
AlwaysEnds == <>Ended

====
